---- MODULE Spec2Model ----
(***************************************************************************)
(* Model of the cali appointment service: the Appointment model and its   *)
(* Validate method (internal/models), the persistence Gateway             *)
(* (internal/db: one SQL statement per operation against the appointments *)
(* table created by InitSchema) and the REST handlers (internal/api).     *)
(*                                                                         *)
(* Timestamps are instants on one time line: 0 is Go's zero time.Time and *)
(* the store orders timestamps as Go's Before/After do.  The store's      *)
(* CURRENT_TIMESTAMP is the variable now, which is never the zero time.   *)
(* The state is the one after db.New and InitSchema: both tables exist    *)
(* and are empty.                                                          *)
(***************************************************************************)
EXTENDS Integers, Sequences, FiniteSets, TLC

\* ---------------------------------------------------------------- bounds
MaxId == 2
MaxTime == 2
MaxClock == 2
MaxUser == 2

\* the <<title, description>> pairs of the requests
MaxRequests == 3

Texts == {<<"", "">>, <<"a", "d">>}
Times == 0..MaxTime
UserIDs == 1..MaxUser
Ids == 1..MaxId

\* appointments, seq and now are the store; faulty is TRUE while the store
\* fails every statement; last is the result on its way to a caller; reqs
\* are the requests the concurrent workers have in hand; val is a call of
\* Validate
VARIABLES appointments, seq, now, faulty, last, reqs, val
vars == <<appointments, seq, now, faulty, last, reqs, val>>

\* ----------------------------------------------------------------- model
\* models.Appointment as the zero value of the struct
ZeroAppointment ==
  [ID |-> 0, UserID |-> 0, Title |-> "", Description |-> "",
   StartTime |-> 0, EndTime |-> 0, CreatedAt |-> 0, UpdatedAt |-> 0]

ErrEmptyTitle == "title cannot be empty"
ErrInvalidTime == "invalid time"
ErrEndTimeBeforeStart == "end time cannot be before start time"

\* time.Time.IsZero
IsZero(t) == t = 0

\* time.Time.Before
Before(t, u) == t < u

\* a Validate that looks at the times before the title
ValidateTimeFirst(a) ==
  IF IsZero(a.StartTime) \/ IsZero(a.EndTime) THEN ErrInvalidTime
  ELSE IF a.Title = "" THEN ErrEmptyTitle
  ELSE IF Before(a.EndTime, a.StartTime) THEN ErrEndTimeBeforeStart
  ELSE "nil"

\* Appointment.Validate; "nil" is the nil error
Validate(a) ==
  IF a.Title = "" THEN ErrEmptyTitle
  ELSE IF IsZero(a.StartTime) \/ IsZero(a.EndTime) THEN ErrInvalidTime
  ELSE IF Before(a.EndTime, a.StartTime) THEN ErrEndTimeBeforeStart
  ELSE "nil"

\* ------------------------------------------------------------ the store
\* a CHECK that lets end_time equal start_time
CheckConstraintGe(start_time, end_time) == end_time >= start_time

\* CHECK (end_time > start_time) of the appointments table
CheckConstraint(start_time, end_time) == end_time > start_time

\* the users table: InitSchema creates it and no statement of the
\* repository inserts into it
users == {}

\* whether the connection enforces foreign keys: db.New opens the
\* database file by its path alone and runs no PRAGMA foreign_keys, and
\* without it SQLite parses FOREIGN KEY clauses and does not enforce them
ForeignKeys == FALSE

\* FOREIGN KEY (user_id) REFERENCES users(id) as the connection applies it
ForeignKeyConstraint(user_id) == ForeignKeys => user_id \in users

\* an INSERT that does not bind the description
InsertRowNoDescription(a) ==
  [id |-> seq + 1, user_id |-> a.UserID, title |-> a.Title,
   description |-> "", start_time |-> a.StartTime,
   end_time |-> a.EndTime, created_at |-> now, updated_at |-> now]

\* an INSERT into a table declared without AUTOINCREMENT: the id is one
\* more than the largest id in the table
InsertRowMaxRowid(a) ==
  [id |-> IF appointments = {} THEN 1
          ELSE (CHOOSE n \in {r.id : r \in appointments} :
                  \A r \in appointments : r.id <= n) + 1,
   user_id |-> a.UserID, title |-> a.Title,
   description |-> a.Description, start_time |-> a.StartTime,
   end_time |-> a.EndTime, created_at |-> now, updated_at |-> now]

\* the row an INSERT writes: id from AUTOINCREMENT, created_at and
\* updated_at from DEFAULT CURRENT_TIMESTAMP
InsertRow(a) ==
  [id |-> seq + 1, user_id |-> a.UserID, title |-> a.Title,
   description |-> a.Description, start_time |-> a.StartTime,
   end_time |-> a.EndTime, created_at |-> now, updated_at |-> now]

\* rows.Scan / row.Scan of the eight selected columns into an Appointment
ScanRow(r) ==
  [ID |-> r.id, UserID |-> r.user_id, Title |-> r.title,
   Description |-> r.description, StartTime |-> r.start_time,
   EndTime |-> r.end_time, CreatedAt |-> r.created_at,
   UpdatedAt |-> r.updated_at]

\* WHERE id = ?
RowsById(id) == {r \in appointments : r.id = id}

\* WHERE id = ? AND user_id = ?
RowsByIdAndUser(id, userID) ==
  {r \in appointments : r.id = id /\ r.user_id = userID}

\* a create whose row stays in the table when the CHECK constraint
\* rejects it
CreateAppointmentPartial(a) ==
  IF faulty
  THEN [appointments |-> appointments, seq |-> seq, a |-> a,
        err |-> "failed to create appointment: disk I/O error"]
  ELSE IF ~ForeignKeyConstraint(a.UserID)
  THEN [appointments |-> appointments, seq |-> seq, a |-> a,
        err |-> "failed to create appointment: FOREIGN KEY constraint failed"]
  ELSE IF CheckConstraint(a.StartTime, a.EndTime)
  THEN [appointments |-> appointments \cup {InsertRow(a)},
        seq |-> seq + 1,
        a |-> [a EXCEPT !.ID = seq + 1, !.CreatedAt = now, !.UpdatedAt = now],
        err |-> "nil"]
  ELSE [appointments |-> appointments \cup {InsertRow(a)},
        seq |-> seq + 1, a |-> a,
        err |-> "failed to create appointment: CHECK constraint failed"]

\* a create that scans the id the sequence had before its own INSERT
CreateAppointmentStaleId(a) ==
  IF faulty
  THEN [appointments |-> appointments, seq |-> seq, a |-> a,
        err |-> "failed to create appointment: disk I/O error"]
  ELSE IF ~ForeignKeyConstraint(a.UserID)
  THEN [appointments |-> appointments, seq |-> seq, a |-> a,
        err |-> "failed to create appointment: FOREIGN KEY constraint failed"]
  ELSE IF CheckConstraint(a.StartTime, a.EndTime)
  THEN [appointments |-> appointments \cup {InsertRow(a)},
        seq |-> seq + 1,
        a |-> [a EXCEPT !.ID = seq, !.CreatedAt = now, !.UpdatedAt = now],
        err |-> "nil"]
  ELSE [appointments |-> appointments, seq |-> seq, a |-> a,
        err |-> "failed to create appointment: CHECK constraint failed"]

\* Database.CreateAppointment: INSERT ... RETURNING id, created_at,
\* updated_at scanned into the argument
CreateAppointment(a) ==
  IF faulty
  THEN [appointments |-> appointments, seq |-> seq, a |-> a,
        err |-> "failed to create appointment: disk I/O error"]
  ELSE IF ~ForeignKeyConstraint(a.UserID)
  THEN [appointments |-> appointments, seq |-> seq, a |-> a,
        err |-> "failed to create appointment: FOREIGN KEY constraint failed"]
  ELSE IF CheckConstraint(a.StartTime, a.EndTime)
  THEN [appointments |-> appointments \cup {InsertRow(a)},
        seq |-> seq + 1,
        a |-> [a EXCEPT !.ID = seq + 1, !.CreatedAt = now, !.UpdatedAt = now],
        err |-> "nil"]
  ELSE [appointments |-> appointments, seq |-> seq, a |-> a,
        err |-> "failed to create appointment: CHECK constraint failed"]

\* a get filtered by the handlers' user: WHERE id = ? AND user_id = 1
GetAppointmentOwned(id) ==
  IF faulty
  THEN [out |-> <<>>, err |-> "failed to get appointment: disk I/O error"]
  ELSE IF RowsByIdAndUser(id, 1) = {}
  THEN [out |-> <<>>, err |-> "nil"]
  ELSE [out |-> <<ScanRow(CHOOSE r \in RowsByIdAndUser(id, 1) : TRUE)>>,
        err |-> "nil"]

\* a get that does not tell sql.ErrNoRows from the other errors
GetAppointmentNoRowsErr(id) ==
  IF RowsById(id) = {}
  THEN [out |-> <<>>,
        err |-> "failed to get appointment: sql: no rows in result set"]
  ELSE [out |-> <<ScanRow(CHOOSE r \in RowsById(id) : TRUE)>>, err |-> "nil"]

\* Database.GetAppointment: out is <<>> for the nil appointment
GetAppointment(id) ==
  IF faulty
  THEN [out |-> <<>>, err |-> "failed to get appointment: disk I/O error"]
  ELSE IF RowsById(id) = {}
  THEN [out |-> <<>>, err |-> "nil"]
  ELSE [out |-> <<ScanRow(CHOOSE r \in RowsById(id) : TRUE)>>, err |-> "nil"]

\* an overlap filter: WHERE user_id = ? AND start_time <= end AND
\* end_time >= start
ListFilterOverlap(userID, start, end) ==
  {r \in appointments :
     r.user_id = userID /\ r.start_time <= end /\ r.end_time >= start}

\* WHERE user_id = ? AND start_time >= ? AND end_time <= ?
ListFilter(userID, start, end) ==
  {r \in appointments :
     r.user_id = userID /\ r.start_time >= start /\ r.end_time <= end}

\* a query without ORDER BY: the rows come in the order of their id
OrderByRowid(S) ==
  {s \in [1..Cardinality(S) -> S] :
     /\ \A i, j \in 1..Cardinality(S) : i # j => s[i] # s[j]
     /\ \A i, j \in 1..Cardinality(S) : i < j => s[i].id <= s[j].id}

\* ORDER BY start_time ASC: the orders of the rows of S the store may
\* return (rows with equal start_time come in any order)
OrderByStartTime(S) ==
  {s \in [1..Cardinality(S) -> S] :
     /\ \A i, j \in 1..Cardinality(S) : i # j => s[i] # s[j]
     /\ \A i, j \in 1..Cardinality(S) :
          i < j => s[i].start_time <= s[j].start_time}

\* Database.ListAppointments: the results the call may return
ListAppointments(userID, start, end) ==
  IF faulty
  THEN {[out |-> <<>>, err |-> "failed to list appointments: disk I/O error"]}
  ELSE {[out |-> [i \in 1..Len(s) |-> ScanRow(s[i])], err |-> "nil"] :
          s \in OrderByStartTime(ListFilter(userID, start, end))}

\* an UPDATE that writes the title and the description only when they
\* are not empty
UpdateRowMerge(r, a) ==
  [r EXCEPT !.title = IF a.Title = "" THEN r.title ELSE a.Title,
            !.description = IF a.Description = "" THEN r.description
                            ELSE a.Description,
            !.start_time = a.StartTime, !.end_time = a.EndTime,
            !.updated_at = now]

\* an UPDATE without updated_at = CURRENT_TIMESTAMP in its SET list
UpdateRowNoTimestamp(r, a) ==
  [r EXCEPT !.title = a.Title, !.description = a.Description,
            !.start_time = a.StartTime, !.end_time = a.EndTime]

\* the row an UPDATE writes over r
UpdateRow(r, a) ==
  [r EXCEPT !.title = a.Title, !.description = a.Description,
            !.start_time = a.StartTime, !.end_time = a.EndTime,
            !.updated_at = now]

\* an update run with Exec, without a look at the rows it matched
UpdateAppointmentExec(a) ==
  LET match == RowsByIdAndUser(a.ID, a.UserID) IN
  IF match # {} /\ ~CheckConstraint(a.StartTime, a.EndTime)
  THEN [appointments |-> appointments, a |-> a,
        err |-> "failed to update appointment: CHECK constraint failed"]
  ELSE [appointments |->
          (appointments \ match) \cup {UpdateRow(r, a) : r \in match},
        a |-> a,
        err |-> "nil"]

\* an update filtered by the id alone: WHERE id = ?
UpdateAppointmentById(a) ==
  LET match == RowsById(a.ID) IN
  IF match = {}
  THEN [appointments |-> appointments, a |-> a,
        err |-> "failed to update appointment: sql: no rows in result set"]
  ELSE IF ~CheckConstraint(a.StartTime, a.EndTime)
  THEN [appointments |-> appointments, a |-> a,
        err |-> "failed to update appointment: CHECK constraint failed"]
  ELSE [appointments |->
          (appointments \ match) \cup {UpdateRow(r, a) : r \in match},
        a |-> [a EXCEPT !.UpdatedAt = now],
        err |-> "nil"]

\* an update that writes the row anew when no row matched
UpdateAppointmentUpsert(a) ==
  LET match == RowsByIdAndUser(a.ID, a.UserID) IN
  IF faulty
  THEN [appointments |-> appointments, a |-> a,
        err |-> "failed to update appointment: disk I/O error"]
  ELSE IF ~CheckConstraint(a.StartTime, a.EndTime)
  THEN [appointments |-> appointments, a |-> a,
        err |-> "failed to update appointment: CHECK constraint failed"]
  ELSE IF match = {}
  THEN [appointments |->
          appointments \cup
            {[id |-> a.ID, user_id |-> a.UserID, title |-> a.Title,
              description |-> a.Description, start_time |-> a.StartTime,
              end_time |-> a.EndTime, created_at |-> now,
              updated_at |-> now]},
        a |-> [a EXCEPT !.UpdatedAt = now],
        err |-> "nil"]
  ELSE [appointments |->
          (appointments \ match) \cup {UpdateRow(r, a) : r \in match},
        a |-> [a EXCEPT !.UpdatedAt = now],
        err |-> "nil"]

\* Database.UpdateAppointment: UPDATE ... WHERE id = ? AND user_id = ?
\* RETURNING updated_at; the Scan of an empty result is sql.ErrNoRows
UpdateAppointment(a) ==
  LET match == RowsByIdAndUser(a.ID, a.UserID) IN
  IF faulty
  THEN [appointments |-> appointments, a |-> a,
        err |-> "failed to update appointment: disk I/O error"]
  ELSE IF match = {}
  THEN [appointments |-> appointments, a |-> a,
        err |-> "failed to update appointment: sql: no rows in result set"]
  ELSE IF ~CheckConstraint(a.StartTime, a.EndTime)
  THEN [appointments |-> appointments, a |-> a,
        err |-> "failed to update appointment: CHECK constraint failed"]
  ELSE [appointments |->
          (appointments \ match) \cup {UpdateRow(r, a) : r \in match},
        a |-> [a EXCEPT !.UpdatedAt = now],
        err |-> "nil"]

\* a delete that reports the rows it matched and leaves them in the table
DeleteAppointmentSoft(id, userID) ==
  LET affected == Cardinality(RowsByIdAndUser(id, userID)) IN
  IF faulty
  THEN [appointments |-> appointments,
        err |-> "failed to delete appointment: disk I/O error"]
  ELSE IF affected = 0
  THEN [appointments |-> appointments,
        err |-> "appointment not found or unauthorized"]
  ELSE [appointments |-> appointments, err |-> "nil"]

\* a delete filtered by the id alone: WHERE id = ?
DeleteAppointmentById(id, userID) ==
  LET affected == Cardinality(RowsById(id)) IN
  IF affected = 0
  THEN [appointments |-> appointments,
        err |-> "appointment not found or unauthorized"]
  ELSE [appointments |-> appointments \ RowsById(id), err |-> "nil"]

\* a delete that tells the caller when the id is a row of another user
DeleteAppointmentLeaky(id, userID) ==
  LET affected == Cardinality(RowsByIdAndUser(id, userID)) IN
  IF faulty
  THEN [appointments |-> appointments,
        err |-> "failed to delete appointment: disk I/O error"]
  ELSE IF affected = 0 /\ RowsById(id) # {}
  THEN [appointments |-> appointments, err |-> "unauthorized"]
  ELSE IF affected = 0
  THEN [appointments |-> appointments,
        err |-> "appointment not found or unauthorized"]
  ELSE [appointments |-> appointments \ RowsByIdAndUser(id, userID),
        err |-> "nil"]

\* a delete that does not look at the number of rows it affected
DeleteAppointmentIdempotent(id, userID) ==
  IF faulty
  THEN [appointments |-> appointments,
        err |-> "failed to delete appointment: disk I/O error"]
  ELSE [appointments |-> appointments \ RowsByIdAndUser(id, userID),
        err |-> "nil"]

\* Database.DeleteAppointment: DELETE ... WHERE id = ? AND user_id = ?
DeleteAppointment(id, userID) ==
  LET affected == Cardinality(RowsByIdAndUser(id, userID)) IN
  IF faulty
  THEN [appointments |-> appointments,
        err |-> "failed to delete appointment: disk I/O error"]
  ELSE IF affected = 0
  THEN [appointments |-> appointments,
        err |-> "appointment not found or unauthorized"]
  ELSE [appointments |-> appointments \ RowsByIdAndUser(id, userID),
        err |-> "nil"]

\* ------------------------------------------------------- request inputs
\* the appointments a caller of the Gateway may pass
NewAppointments ==
  {[ZeroAppointment EXCEPT !.UserID = u, !.Title = t[1],
                           !.Description = t[2],
                           !.StartTime = st, !.EndTime = en] :
     u \in UserIDs, t \in Texts, st \in Times, en \in Times}

\* createAppointmentRequest as json.Decode leaves it; a body that is not
\* JSON has valid = FALSE, a missing field keeps its zero value
Bodies ==
  {[valid |-> TRUE, Title |-> t[1], Description |-> t[2],
    StartTime |-> st, EndTime |-> en] :
     t \in Texts, st \in Times, en \in Times}
  \cup {[valid |-> FALSE, Title |-> "", Description |-> "",
         StartTime |-> 0, EndTime |-> 0]}

DigitChars == <<"0", "1", "2", "3", "4", "5", "6", "7", "8", "9">>
IsDigit(c) == \E i \in 1..10 : DigitChars[i] = c
DigitVal(c) == (CHOOSE i \in 1..10 : DigitChars[i] = c) - 1

\* strconv.ParseInt(s, 10, 64) on a sequence of characters: ok is FALSE
\* for the syntax error
RECURSIVE ParseDigits(_, _)
ParseDigits(s, acc) ==
  IF s = <<>> THEN acc
  ELSE ParseDigits(Tail(s), 10 * acc + DigitVal(Head(s)))

\* a parse that reads the leading digit and ignores what follows it
ParseIntPrefix(s) ==
  IF s = <<>> \/ ~IsDigit(s[1])
  THEN [ok |-> FALSE, n |-> 0]
  ELSE [ok |-> TRUE, n |-> DigitVal(s[1])]

ParseInt(s) ==
  IF s = <<>> \/ \E i \in 1..Len(s) : ~IsDigit(s[i])
  THEN [ok |-> FALSE, n |-> 0]
  ELSE [ok |-> TRUE, n |-> ParseDigits(s, 0)]

\* the {id} segments of a request path
PathIds == {<<DigitChars[n + 1]>> : n \in Ids} \cup {<<"x">>, <<"1", "x">>}

\* the call whose result is on its way to the caller, with what it
\* returned: status is 0 for a call of the Gateway that did not come
\* through a handler.  Calls are served one at a time.
Call(op, a, id, userID, err, status, out) ==
  [op |-> op, a |-> a, id |-> id, userID |-> userID, start |-> 0,
   end |-> 0, err |-> err, status |-> status, msg |-> "", out |-> out,
   body |-> "none", path |-> <<>>, valid |-> TRUE, calls |-> 0]

NoCall == Call("none", ZeroAppointment, 0, 0, "nil", 0, <<>>)

\* ------------------------------------------------------ Gateway actions
DbCreateAppointment ==
  /\ last = NoCall
  /\ seq < MaxId
  /\ \E a \in NewAppointments :
       LET res == CreateAppointment(a) IN
       /\ appointments' = res.appointments
       /\ seq' = res.seq
       /\ last' = Call("CreateAppointment", a, 0, a.UserID, res.err, 0,
                       <<res.a>>)
  /\ UNCHANGED <<now, val, faulty, reqs>>

DbGetAppointment ==
  /\ last = NoCall
  /\ \E id \in Ids :
       LET res == GetAppointment(id) IN
       last' = Call("GetAppointment", ZeroAppointment, id, 0, res.err, 0,
                    res.out)
  /\ UNCHANGED <<appointments, seq, now, val, faulty, reqs>>

DbListAppointments ==
  /\ last = NoCall
  /\ \E userID \in UserIDs, start \in Times, end \in Times :
       \E res \in ListAppointments(userID, start, end) :
         last' = [Call("ListAppointments", ZeroAppointment, 0, userID,
                       res.err, 0, res.out)
                  EXCEPT !.start = start, !.end = end]
  /\ UNCHANGED <<appointments, seq, now, val, faulty, reqs>>

DbUpdateAppointment ==
  /\ last = NoCall
  /\ \E a \in NewAppointments, id \in Ids :
       LET arg == [a EXCEPT !.ID = id]
           res == UpdateAppointment(arg) IN
       /\ appointments' = res.appointments
       /\ last' = Call("UpdateAppointment", arg, id, a.UserID, res.err, 0,
                       <<res.a>>)
  /\ UNCHANGED <<seq, now, val, faulty, reqs>>

DbDeleteAppointment ==
  /\ last = NoCall
  /\ \E id \in Ids, userID \in UserIDs :
       LET res == DeleteAppointment(id, userID) IN
       /\ appointments' = res.appointments
       /\ last' = Call("DeleteAppointment", ZeroAppointment, id, userID,
                       res.err, 0, <<>>)
  /\ UNCHANGED <<seq, now, val, faulty, reqs>>

\* the caller takes the result
Return ==
  /\ last # NoCall
  /\ last' = NoCall
  /\ UNCHANGED <<appointments, seq, now, val, faulty, reqs>>

\* the store's clock advances
Tick ==
  /\ now < MaxClock
  /\ now' = now + 1
  /\ UNCHANGED <<appointments, seq, last, val, faulty, reqs>>

\* ------------------------------------------------------------- handlers
StatusOK == 200
StatusCreated == 201
StatusNoContent == 204
StatusBadRequest == 400
StatusNotFound == 404
StatusInternalServerError == 500

\* the user id the handlers hardcode
HandlerUserID == 1

\* a request appointment whose UserID is left at its zero value
RequestAppointmentNoUser(id, req) ==
  [ZeroAppointment EXCEPT !.ID = id,
                          !.Title = req.Title,
                          !.Description = req.Description,
                          !.StartTime = req.StartTime,
                          !.EndTime = req.EndTime]

\* the models.Appointment the create and update handlers build
RequestAppointment(id, req) ==
  [ZeroAppointment EXCEPT !.ID = id, !.UserID = HandlerUserID,
                          !.Title = req.Title,
                          !.Description = req.Description,
                          !.StartTime = req.StartTime,
                          !.EndTime = req.EndTime]

\* a respondError that writes the text of the error into the body
RespondErrorLeaky(op, a, id, err, status, message) ==
  [Call(op, a, id, HandlerUserID, err, status, <<>>)
   EXCEPT !.msg = IF err # "nil" THEN err ELSE message, !.body = "error"]

\* respondError: the status and the {"error": message} body
RespondError(op, a, id, err, status, message) ==
  [Call(op, a, id, HandlerUserID, err, status, <<>>)
   EXCEPT !.msg = message, !.body = "error"]

\* respondJSON: kind is "nil" for nil data, for which no body is written,
\* "appointment" for an appointment and "list" for a slice of them
RespondJSON(op, a, id, status, kind, data) ==
  [Call(op, a, id, HandlerUserID, "nil", status, data)
   EXCEPT !.body = IF kind = "nil" THEN "none" ELSE kind]

\* the response with the request it answers (the {id} segment of the path
\* and whether the body was JSON) and the number of calls of the Gateway
\* the handler made
Served(resp, path, valid, calls) ==
  [resp EXCEPT !.path = path, !.valid = valid, !.calls = calls]

\* a list handler that asks the Gateway for the user's appointments
handleListAppointmentsGateway ==
  /\ last = NoCall
  /\ \E res \in ListAppointments(HandlerUserID, 0, MaxTime) :
       last' = IF res.err # "nil"
               THEN Served(RespondError("handleListAppointments",
                             ZeroAppointment, 0, res.err,
                             StatusInternalServerError,
                             "Failed to list appointments"),
                           <<>>, TRUE, 1)
               ELSE Served(RespondJSON("handleListAppointments",
                             ZeroAppointment, 0, StatusOK, "list", res.out),
                           <<>>, TRUE, 1)
  /\ UNCHANGED <<appointments, seq, now, val, faulty, reqs>>

handleListAppointments ==
  /\ last = NoCall
  /\ last' = Served(RespondJSON("handleListAppointments", ZeroAppointment,
                                0, StatusOK, "list", <<>>),
                    <<>>, TRUE, 0)
  /\ UNCHANGED <<appointments, seq, now, val, faulty, reqs>>

\* a create handler that calls the Gateway a second time after an error
handleCreateAppointmentRetry ==
  /\ last = NoCall
  /\ seq < MaxId
  /\ \E req \in Bodies :
       LET appt == RequestAppointment(0, req)
           first == CreateAppointment(appt)
           res == IF first.err # "nil" THEN CreateAppointment(appt)
                  ELSE first
           calls == IF first.err # "nil" THEN 2 ELSE 1 IN
       IF ~req.valid
       THEN /\ last' = Served(RespondError("handleCreateAppointment",
                                ZeroAppointment, 0, "nil", StatusBadRequest,
                                "Invalid request body"),
                              <<>>, FALSE, 0)
            /\ UNCHANGED <<appointments, seq>>
       ELSE IF res.err # "nil"
       THEN /\ last' = Served(RespondError("handleCreateAppointment", appt,
                                0, res.err, StatusInternalServerError,
                                "Failed to create appointment"),
                              <<>>, TRUE, calls)
            /\ appointments' = res.appointments
            /\ seq' = res.seq
       ELSE /\ last' = Served(RespondJSON("handleCreateAppointment", appt, 0,
                                StatusCreated, "appointment", <<res.a>>),
                              <<>>, TRUE, calls)
            /\ appointments' = res.appointments
            /\ seq' = res.seq
  /\ UNCHANGED <<now, val, faulty, reqs>>

handleCreateAppointment ==
  /\ last = NoCall
  /\ seq < MaxId
  /\ \E req \in Bodies :
       LET appt == RequestAppointment(0, req)
           res == CreateAppointment(appt) IN
       IF ~req.valid
       THEN /\ last' = Served(RespondError("handleCreateAppointment",
                                ZeroAppointment, 0, "nil", StatusBadRequest,
                                "Invalid request body"),
                              <<>>, FALSE, 0)
            /\ UNCHANGED <<appointments, seq>>
       ELSE IF res.err # "nil"
       THEN /\ last' = Served(RespondError("handleCreateAppointment", appt,
                                0, res.err, StatusInternalServerError,
                                "Failed to create appointment"),
                              <<>>, TRUE, 1)
            /\ appointments' = res.appointments
            /\ seq' = res.seq
       ELSE /\ last' = Served(RespondJSON("handleCreateAppointment", appt, 0,
                                StatusCreated, "appointment", <<res.a>>),
                              <<>>, TRUE, 1)
            /\ appointments' = res.appointments
            /\ seq' = res.seq
  /\ UNCHANGED <<now, val, faulty, reqs>>

handleGetAppointment ==
  /\ last = NoCall
  /\ \E path \in PathIds :
       LET id == ParseInt(path)
           res == GetAppointment(id.n) IN
       IF ~id.ok
       THEN last' = Served(RespondError("handleGetAppointment",
                             ZeroAppointment, 0, "nil", StatusBadRequest,
                             "Invalid appointment ID"),
                           path, TRUE, 0)
       ELSE IF res.err # "nil"
       THEN last' = Served(RespondError("handleGetAppointment",
                             ZeroAppointment, id.n, res.err,
                             StatusInternalServerError,
                             "Failed to get appointment"),
                           path, TRUE, 1)
       ELSE IF res.out = <<>>
       THEN last' = Served(RespondError("handleGetAppointment",
                             ZeroAppointment, id.n, "nil", StatusNotFound,
                             "Appointment not found"),
                           path, TRUE, 1)
       ELSE last' = Served(RespondJSON("handleGetAppointment",
                             ZeroAppointment, id.n, StatusOK, "appointment",
                             res.out),
                           path, TRUE, 1)
  /\ UNCHANGED <<appointments, seq, now, val, faulty, reqs>>

handleUpdateAppointment ==
  /\ last = NoCall
  /\ \E path \in PathIds, req \in Bodies :
       LET id == ParseInt(path)
           appt == RequestAppointment(id.n, req)
           res == UpdateAppointment(appt) IN
       IF ~id.ok
       THEN /\ last' = Served(RespondError("handleUpdateAppointment",
                                ZeroAppointment, 0, "nil", StatusBadRequest,
                                "Invalid appointment ID"),
                              path, req.valid, 0)
            /\ UNCHANGED appointments
       ELSE IF ~req.valid
       THEN /\ last' = Served(RespondError("handleUpdateAppointment",
                                ZeroAppointment, id.n, "nil",
                                StatusBadRequest, "Invalid request body"),
                              path, FALSE, 0)
            /\ UNCHANGED appointments
       ELSE IF res.err # "nil"
       THEN /\ last' = Served(RespondError("handleUpdateAppointment", appt,
                                id.n, res.err, StatusInternalServerError,
                                "Failed to update appointment"),
                              path, TRUE, 1)
            /\ appointments' = res.appointments
       ELSE /\ last' = Served(RespondJSON("handleUpdateAppointment", appt,
                                id.n, StatusOK, "appointment", <<res.a>>),
                              path, TRUE, 1)
            /\ appointments' = res.appointments
  /\ UNCHANGED <<seq, now, val, faulty, reqs>>

\* a DELETE handler that answers the not-found-or-unauthorized error of
\* the Gateway with 404
handleDeleteAppointmentNotFound ==
  /\ last = NoCall
  /\ \E path \in PathIds :
       LET id == ParseInt(path)
           res == DeleteAppointment(id.n, HandlerUserID) IN
       IF ~id.ok
       THEN /\ last' = Served(RespondError("handleDeleteAppointment",
                                ZeroAppointment, 0, "nil", StatusBadRequest,
                                "Invalid appointment ID"),
                              path, TRUE, 0)
            /\ UNCHANGED appointments
       ELSE IF res.err # "nil"
       THEN /\ last' = Served(RespondError("handleDeleteAppointment",
                                ZeroAppointment, id.n, res.err,
                                IF res.err = "appointment not found or unauthorized"
                                THEN StatusNotFound
                                ELSE StatusInternalServerError,
                                "Failed to delete appointment"),
                              path, TRUE, 1)
            /\ appointments' = res.appointments
       ELSE /\ last' = Served(RespondJSON("handleDeleteAppointment",
                                ZeroAppointment, id.n, StatusNoContent,
                                "nil", <<>>),
                              path, TRUE, 1)
            /\ appointments' = res.appointments
  /\ UNCHANGED <<seq, now, val, faulty, reqs>>

handleDeleteAppointment ==
  /\ last = NoCall
  /\ \E path \in PathIds :
       LET id == ParseInt(path)
           res == DeleteAppointment(id.n, HandlerUserID) IN
       IF ~id.ok
       THEN /\ last' = Served(RespondError("handleDeleteAppointment",
                                ZeroAppointment, 0, "nil", StatusBadRequest,
                                "Invalid appointment ID"),
                              path, TRUE, 0)
            /\ UNCHANGED appointments
       ELSE IF res.err # "nil"
       THEN /\ last' = Served(RespondError("handleDeleteAppointment",
                                ZeroAppointment, id.n, res.err,
                                StatusInternalServerError,
                                "Failed to delete appointment"),
                              path, TRUE, 1)
            /\ appointments' = res.appointments
       ELSE /\ last' = Served(RespondJSON("handleDeleteAppointment",
                                ZeroAppointment, id.n, StatusNoContent,
                                "nil", <<>>),
                              path, TRUE, 1)
            /\ appointments' = res.appointments
  /\ UNCHANGED <<seq, now, val, faulty, reqs>>

\* handleIndex: a text/plain greeting, written with the implicit 200
handleIndex ==
  /\ last = NoCall
  /\ last' = Served([Call("handleIndex", ZeroAppointment, 0, 0, "nil",
                          StatusOK, <<>>) EXCEPT !.body = "text"],
                    <<>>, TRUE, 0)
  /\ UNCHANGED <<appointments, seq, now, val, faulty, reqs>>

\* the store starts to fail every statement (the disk is full, the file
\* is gone), and recovers
StoreFails ==
  /\ ~faulty
  /\ faulty' = TRUE
  /\ UNCHANGED <<appointments, seq, now, last, reqs, val>>

StoreRecovers ==
  /\ faulty
  /\ faulty' = FALSE
  /\ UNCHANGED <<appointments, seq, now, last, reqs, val>>

\* ------------------------------------------------------- specifications
\* the workers that serve requests at the same time
Workers == {1, 2}

\* a worker with no request in hand
IdleWorker ==
  [pc |-> "idle", op |-> "none", id |-> 0, a |-> ZeroAppointment,
   err |-> "nil", status |-> 0, out |-> <<>>]

\* no request received yet
NoRequests == [n |-> 0, w |-> [w \in Workers |-> IdleWorker]]

NoValidation == [a |-> ZeroAppointment, err |-> "none"]

Init ==
  /\ appointments = {}
  /\ seq = 0
  /\ now = 1
  /\ faulty = FALSE
  /\ last = NoCall
  /\ reqs = NoRequests
  /\ val = NoValidation

\* the server: requests come through the handlers
Next ==
  \/ handleListAppointments
  \/ handleCreateAppointment
  \/ handleGetAppointment
  \/ handleUpdateAppointment
  \/ handleDeleteAppointment
  \/ Return
  \/ Tick

Spec == Init /\ [][Next]_vars

\* the Gateway called directly, for any user id
NextGateway ==
  \/ DbCreateAppointment
  \/ DbGetAppointment
  \/ DbListAppointments
  \/ DbUpdateAppointment
  \/ DbDeleteAppointment
  \/ Return
  \/ Tick

SpecGateway == Init /\ [][NextGateway]_vars

\* the Gateway called directly over a store that may fail
NextGatewayFault ==
  \/ DbCreateAppointment
  \/ DbGetAppointment
  \/ DbListAppointments
  \/ DbUpdateAppointment
  \/ DbDeleteAppointment
  \/ Return
  \/ Tick
  \/ StoreFails
  \/ StoreRecovers

SpecGatewayFault == Init /\ [][NextGatewayFault]_vars

\* the server over a store that may fail
NextFault ==
  \/ handleListAppointments
  \/ handleCreateAppointment
  \/ handleGetAppointment
  \/ handleUpdateAppointment
  \/ handleDeleteAppointment
  \/ Return
  \/ Tick
  \/ StoreFails
  \/ StoreRecovers

SpecFault == Init /\ [][NextFault]_vars

\* the server, and callers of the Gateway that create appointments for
\* any user id
NextMixed ==
  \/ handleListAppointments
  \/ handleCreateAppointment
  \/ handleGetAppointment
  \/ handleUpdateAppointment
  \/ handleDeleteAppointment
  \/ Return
  \/ Tick
  \/ DbCreateAppointment

SpecMixed == Init /\ [][NextMixed]_vars

\* ---------------------------------------------------- concurrent requests
\* net/http serves every request in a goroutine of its own.  A handler
\* decodes its request, runs one statement of the Gateway and writes its
\* response; the statement is the one step that touches the store, and
\* SQLite runs the statements of the pooled connections one at a time.
\* reqs.w[w] is the request worker w has in hand, reqs.n the number of
\* requests received.
\* The requests are those the store accepts when their row exists: a JSON
\* body whose end_time is after its start_time.
ConcurrentBodies ==
  {b \in Bodies : b.valid /\ CheckConstraint(b.StartTime, b.EndTime)}

PendingCreates ==
  Cardinality({w \in Workers : /\ reqs.w[w].pc = "call"
                               /\ reqs.w[w].op = "handleCreateAppointment"})

\* handleCreateAppointment up to its call of the Gateway
ReceiveCreate ==
  /\ reqs.n < MaxRequests
  /\ seq + PendingCreates < MaxId
  /\ \E w \in Workers, req \in ConcurrentBodies :
       /\ reqs.w[w].pc \in {"idle", "done"}
       /\ reqs' = [n |-> reqs.n + 1,
                   w |-> [reqs.w EXCEPT ![w] =
                            [IdleWorker EXCEPT
                               !.pc = "call",
                               !.op = "handleCreateAppointment",
                               !.a = RequestAppointment(0, req)]]]
  /\ UNCHANGED <<appointments, seq, now, faulty, last, val>>

\* handleUpdateAppointment up to its call of the Gateway
ReceiveUpdate ==
  /\ reqs.n < MaxRequests
  /\ \E w \in Workers, id \in Ids, req \in ConcurrentBodies :
       /\ reqs.w[w].pc \in {"idle", "done"}
       /\ reqs' = [n |-> reqs.n + 1,
                   w |-> [reqs.w EXCEPT ![w] =
                            [IdleWorker EXCEPT
                               !.pc = "call",
                               !.op = "handleUpdateAppointment",
                               !.id = id,
                               !.a = RequestAppointment(id, req)]]]
  /\ UNCHANGED <<appointments, seq, now, faulty, last, val>>

\* handleDeleteAppointment up to its call of the Gateway
ReceiveDelete ==
  /\ reqs.n < MaxRequests
  /\ \E w \in Workers, id \in Ids :
       /\ reqs.w[w].pc \in {"idle", "done"}
       /\ reqs' = [n |-> reqs.n + 1,
                   w |-> [reqs.w EXCEPT ![w] =
                            [IdleWorker EXCEPT
                               !.pc = "call",
                               !.op = "handleDeleteAppointment",
                               !.id = id]]]
  /\ UNCHANGED <<appointments, seq, now, faulty, last, val>>

\* handleGetAppointment up to its call of the Gateway
ReceiveGet ==
  /\ reqs.n < MaxRequests
  /\ \E w \in Workers, id \in Ids :
       /\ reqs.w[w].pc \in {"idle", "done"}
       /\ reqs' = [n |-> reqs.n + 1,
                   w |-> [reqs.w EXCEPT ![w] =
                            [IdleWorker EXCEPT
                               !.pc = "call",
                               !.op = "handleGetAppointment",
                               !.id = id]]]
  /\ UNCHANGED <<appointments, seq, now, faulty, last, val>>

\* handleListAppointments, which calls nothing before its response
ReceiveList ==
  /\ reqs.n < MaxRequests
  /\ \E w \in Workers :
       /\ reqs.w[w].pc \in {"idle", "done"}
       /\ reqs' = [n |-> reqs.n + 1,
                   w |-> [reqs.w EXCEPT ![w] =
                            [IdleWorker EXCEPT
                               !.pc = "respond",
                               !.op = "handleListAppointments"]]]
  /\ UNCHANGED <<appointments, seq, now, faulty, last, val>>

\* a handler whose request has an id that does not parse or a body that
\* does not decode: it is about to call respondError with 400 and return,
\* without a call of the Gateway
ReceiveInvalid ==
  /\ reqs.n < MaxRequests
  /\ \E w \in Workers, op \in {"handleCreateAppointment",
                                "handleGetAppointment",
                                "handleUpdateAppointment",
                                "handleDeleteAppointment"} :
       /\ reqs.w[w].pc \in {"idle", "done"}
       /\ reqs' = [n |-> reqs.n + 1,
                   w |-> [reqs.w EXCEPT ![w] =
                            [IdleWorker EXCEPT
                               !.pc = "respond",
                               !.op = op,
                               !.status = StatusBadRequest]]]
  /\ UNCHANGED <<appointments, seq, now, faulty, last, val>>

\* the worker's call of the Gateway: s.db.CreateAppointment(appt),
\* s.db.GetAppointment(id), s.db.UpdateAppointment(appt) or
\* s.db.DeleteAppointment(id, 1)
ExecStatement ==
  /\ \E w \in Workers :
       LET r == reqs.w[w] IN
       /\ r.pc = "call"
       /\ IF r.op = "handleCreateAppointment"
          THEN LET res == CreateAppointment(r.a) IN
               /\ appointments' = res.appointments
               /\ seq' = res.seq
               /\ reqs' = [reqs EXCEPT !.w[w] =
                             [r EXCEPT !.pc = "respond", !.err = res.err,
                                       !.out = <<res.a>>]]
          ELSE IF r.op = "handleUpdateAppointment"
          THEN LET res == UpdateAppointment(r.a) IN
               /\ appointments' = res.appointments
               /\ seq' = seq
               /\ reqs' = [reqs EXCEPT !.w[w] =
                             [r EXCEPT !.pc = "respond", !.err = res.err,
                                       !.out = <<res.a>>]]
          ELSE IF r.op = "handleGetAppointment"
          THEN LET res == GetAppointment(r.id) IN
               /\ appointments' = appointments
               /\ seq' = seq
               /\ reqs' = [reqs EXCEPT !.w[w] =
                             [r EXCEPT !.pc = "respond", !.err = res.err,
                                       !.out = res.out]]
          ELSE LET res == DeleteAppointment(r.id, HandlerUserID) IN
               /\ appointments' = res.appointments
               /\ seq' = seq
               /\ reqs' = [reqs EXCEPT !.w[w] =
                             [r EXCEPT !.pc = "respond", !.err = res.err]]
  /\ UNCHANGED <<now, faulty, last, val>>

\* a handler whose get of a missing row returns without a call of
\* respondError or respondJSON: status 0 stands for no response written
ResponseSilent(r) ==
  IF r.op = "handleListAppointments"
  THEN RespondJSON(r.op, r.a, r.id, StatusOK, "list", <<>>)
  ELSE IF r.status = StatusBadRequest
  THEN RespondError(r.op, r.a, r.id, r.err, StatusBadRequest,
         IF r.op = "handleCreateAppointment" THEN "Invalid request body"
         ELSE "Invalid appointment ID")
  ELSE IF r.err # "nil"
  THEN RespondError(r.op, r.a, r.id, r.err, StatusInternalServerError,
         IF r.op = "handleCreateAppointment"
         THEN "Failed to create appointment"
         ELSE IF r.op = "handleGetAppointment"
         THEN "Failed to get appointment"
         ELSE IF r.op = "handleUpdateAppointment"
         THEN "Failed to update appointment"
         ELSE "Failed to delete appointment")
  ELSE IF r.op = "handleGetAppointment" /\ r.out = <<>>
  THEN Call(r.op, r.a, r.id, HandlerUserID, "nil", 0, <<>>)
  ELSE IF r.op = "handleDeleteAppointment"
  THEN RespondJSON(r.op, r.a, r.id, StatusNoContent, "nil", <<>>)
  ELSE RespondJSON(r.op, r.a, r.id,
         IF r.op = "handleCreateAppointment" THEN StatusCreated
         ELSE StatusOK,
         "appointment", r.out)

\* the response the worker's handler writes: respondJSON with the empty
\* list for the list handler; respondError with 400 for a request that
\* did not parse (the message of a PUT whose body does not decode is
\* "Invalid request body"; the worker keeps the status only);
\* respondError with 500 after an error of the Gateway; respondError with
\* 404 after a get that found no row; respondJSON with the appointment
\* after a create, a get or an update; respondJSON with nil after a delete
Response(r) ==
  IF r.op = "handleListAppointments"
  THEN RespondJSON(r.op, r.a, r.id, StatusOK, "list", <<>>)
  ELSE IF r.status = StatusBadRequest
  THEN RespondError(r.op, r.a, r.id, r.err, StatusBadRequest,
         IF r.op = "handleCreateAppointment" THEN "Invalid request body"
         ELSE "Invalid appointment ID")
  ELSE IF r.err # "nil"
  THEN RespondError(r.op, r.a, r.id, r.err, StatusInternalServerError,
         IF r.op = "handleCreateAppointment"
         THEN "Failed to create appointment"
         ELSE IF r.op = "handleGetAppointment"
         THEN "Failed to get appointment"
         ELSE IF r.op = "handleUpdateAppointment"
         THEN "Failed to update appointment"
         ELSE "Failed to delete appointment")
  ELSE IF r.op = "handleGetAppointment" /\ r.out = <<>>
  THEN RespondError(r.op, r.a, r.id, r.err, StatusNotFound,
         "Appointment not found")
  ELSE IF r.op = "handleDeleteAppointment"
  THEN RespondJSON(r.op, r.a, r.id, StatusNoContent, "nil", <<>>)
  ELSE RespondJSON(r.op, r.a, r.id,
         IF r.op = "handleCreateAppointment" THEN StatusCreated
         ELSE StatusOK,
         "appointment", r.out)

\* the worker writes its response
WriteResponse ==
  /\ \E w \in Workers :
       LET r == reqs.w[w]
           resp == Response(r) IN
       /\ r.pc = "respond"
       /\ reqs' = [reqs EXCEPT !.w[w] =
                     [r EXCEPT !.pc = "done", !.status = resp.status,
                               !.out = resp.out]]
  /\ UNCHANGED <<appointments, seq, now, faulty, last, val>>

\* the server with two requests in progress at a time
NextConcurrent ==
  \/ ReceiveCreate
  \/ ReceiveUpdate
  \/ ExecStatement
  \/ WriteResponse
  \/ Tick

SpecConcurrent == Init /\ [][NextConcurrent]_vars

\* the same server with DELETE requests among the concurrent ones
NextConcurrentDelete ==
  \/ ReceiveCreate
  \/ ReceiveUpdate
  \/ ReceiveDelete
  \/ ExecStatement
  \/ WriteResponse
  \/ Tick

SpecConcurrentDelete == Init /\ [][NextConcurrentDelete]_vars

\* the server with its index page, and callers of the Gateway that
\* create, get and list appointments for any user id
NextRead ==
  \/ handleIndex
  \/ handleListAppointments
  \/ handleCreateAppointment
  \/ handleGetAppointment
  \/ handleUpdateAppointment
  \/ handleDeleteAppointment
  \/ DbCreateAppointment
  \/ DbGetAppointment
  \/ DbListAppointments
  \/ Return
  \/ Tick

SpecRead == Init /\ [][NextRead]_vars

\* requests of every appointment handler, served by two
\* workers over a store that may fail.  A goroutine that can take its
\* next step takes it: the call of the Gateway returns and the response
\* is written.
NextServe ==
  \/ ReceiveList
  \/ ReceiveCreate
  \/ ReceiveGet
  \/ ReceiveUpdate
  \/ ReceiveDelete
  \/ ReceiveInvalid
  \/ ExecStatement
  \/ WriteResponse
  \/ StoreFails
  \/ StoreRecovers

SpecServe ==
  /\ Init
  /\ [][NextServe]_vars
  /\ WF_vars(ExecStatement)
  /\ WF_vars(WriteResponse)

\* the appointments handed to Validate: any title, any description, any
\* start and end, the zero time included
ValidateInputs ==
  {[ZeroAppointment EXCEPT !.UserID = u, !.Title = t, !.Description = d,
                           !.StartTime = st, !.EndTime = en] :
     u \in UserIDs, t \in {"", "a"}, d \in {"", "d"},
     st \in Times, en \in Times}

\* a caller validates an appointment: val.err is "pending" until
\* Validate has returned
InitValidate ==
  /\ appointments = {}
  /\ seq = 0
  /\ now = 1
  /\ faulty = FALSE
  /\ last = NoCall
  /\ reqs = NoRequests
  /\ val \in {[a |-> a, err |-> "pending"] : a \in ValidateInputs}

CallValidate ==
  /\ val.err = "pending"
  /\ val' = [val EXCEPT !.err = Validate(val.a)]
  /\ UNCHANGED <<appointments, seq, now, faulty, last, reqs>>

NextValidate == CallValidate

SpecValidate == InitValidate /\ [][NextValidate]_vars

\* --------------------------------------------------------------- claims
ErrNotFoundOrUnauthorized == "appointment not found or unauthorized"

\* C1: Validate returns an error if and only if the title is empty, or
\* the start or the end is the zero time, or the end is not strictly
\* after the start (so end equal to start fails validation).
C1_ValidateIff ==
  val.err \notin {"none", "pending"} =>
    ((val.err # "nil") <=>
       \/ val.a.Title = ""
       \/ val.a.StartTime = 0
       \/ val.a.EndTime = 0
       \/ ~(val.a.EndTime > val.a.StartTime))

\* C2: every persisted appointment has end_time strictly greater than
\* start_time, and a create or update request whose start_time equals
\* its end_time is rejected.
C2_EndAfterStart ==
  /\ \A r \in appointments : r.end_time > r.start_time
  /\ (/\ last.op \in {"handleCreateAppointment", "handleUpdateAppointment"}
      /\ last.status # StatusBadRequest
      /\ last.a.StartTime = last.a.EndTime)
     => last.status = StatusInternalServerError

\* a POST with a set start_time equal to its end_time was rejected while
\* appointments are persisted
C2_Witness ==
  /\ last.op = "handleCreateAppointment"
  /\ last.status = StatusInternalServerError
  /\ last.a.StartTime = last.a.EndTime
  /\ last.a.StartTime # 0
  /\ appointments # {}

\* C3: every persisted appointment has a non-empty title, whatever POST
\* and PUT requests were made.
C3_TitleNonEmpty == \A r \in appointments : r.title # ""

\* C4: the appointment a successful create returns is the one a get by
\* its id yields (title, description, start and end equal to the created
\* ones, created and updated timestamps set), and it stays so until an
\* update or a delete of that id.
C4_RoundTrip ==
  [][/\ (last'.op = "CreateAppointment" /\ last'.err = "nil") =>
          \E id \in Ids :
          LET got == (GetAppointment(id))' IN
          /\ last'.out[1].ID = id
          /\ got.err = "nil"
          /\ got.out # <<>>
          /\ got.out[1].Title = last'.a.Title
          /\ got.out[1].Description = last'.a.Description
          /\ got.out[1].StartTime = last'.a.StartTime
          /\ got.out[1].EndTime = last'.a.EndTime
          /\ got.out[1].CreatedAt # 0
          /\ got.out[1].UpdatedAt # 0
     /\ \A r \in appointments :
          \/ r \in appointments'
          \/ /\ last'.op \in {"UpdateAppointment", "DeleteAppointment"}
             /\ last'.id = r.id
     /\ (last'.op = "GetAppointment" /\ RowsById(last'.id) # {}) =>
          \E r \in appointments :
            /\ r.id = last'.id
            /\ last'.out = <<ScanRow(r)>>
            /\ last'.out[1].Title = r.title
            /\ last'.out[1].Description = r.description
            /\ last'.out[1].StartTime = r.start_time
            /\ last'.out[1].EndTime = r.end_time
            /\ last'.out[1].CreatedAt = r.created_at
            /\ last'.out[1].UpdatedAt = r.updated_at]_vars

\* a get returned a created appointment that was never updated, with its
\* description
C4_Witness ==
  /\ last.op = "GetAppointment"
  /\ last.out # <<>>
  /\ last.out[1].Title = "a"
  /\ last.out[1].Description = "d"
  /\ last.out[1].CreatedAt = last.out[1].UpdatedAt
  /\ last.out[1].CreatedAt # 0

\* C5: a delete of an id whose row belongs to another user returns the
\* not-found-or-unauthorized error and leaves the store unchanged; the
\* row is still returned by get.
C5_DeleteOtherUser ==
  [][\A r \in appointments :
       (/\ last'.op = "DeleteAppointment"
        /\ last'.id = r.id
        /\ last'.userID # r.user_id)
       => /\ last'.err = ErrNotFoundOrUnauthorized
          /\ appointments' = appointments
          /\ (GetAppointment(r.id))'.out = <<ScanRow(r)>>]_vars

\* a delete by another user than the owner of the row was refused
C5_Witness ==
  /\ last.op = "DeleteAppointment"
  /\ last.err = ErrNotFoundOrUnauthorized
  /\ \E r \in appointments : r.id = last.id /\ r.user_id # last.userID

\* C6: an update that matches no row by id and user id returns an error
\* and neither changes nor creates a row.
C6_UpdateNoMatch ==
  [][(/\ last'.op = "UpdateAppointment"
      /\ ~\E r \in appointments :
            r.id = last'.id /\ r.user_id = last'.userID)
     => /\ last'.err # "nil"
        /\ appointments' = appointments]_vars

\* an update of an existing row by another user, with values the store
\* would accept, was refused
C6_Witness ==
  /\ last.op = "UpdateAppointment"
  /\ last.err # "nil"
  /\ last.a.EndTime > last.a.StartTime
  /\ \E r \in appointments : r.id = last.id /\ r.user_id # last.userID

\* C7: list returns exactly the persisted appointments of the user that
\* lie inside the window (start_time >= start and end_time <= end), each
\* once.
C7_ListContained ==
  last.op = "ListAppointments" =>
    /\ \A r \in appointments :
         (/\ r.user_id = last.userID
          /\ r.start_time >= last.start
          /\ r.end_time <= last.end)
         <=> \E i \in 1..Len(last.out) : last.out[i].ID = r.id
    /\ \A i \in 1..Len(last.out) :
         \E r \in appointments : last.out[i] = ScanRow(r)
    /\ \A i, j \in 1..Len(last.out) :
         last.out[i].ID = last.out[j].ID => i = j

\* a list returned an appointment and left out one of the same user that
\* overlaps the window without lying inside it
C7_Witness ==
  /\ last.op = "ListAppointments"
  /\ Len(last.out) >= 1
  /\ \E r \in appointments :
       /\ r.user_id = last.userID
       /\ r.start_time < last.end
       /\ r.end_time > last.start
       /\ ~(r.start_time >= last.start /\ r.end_time <= last.end)
       /\ \A i \in 1..Len(last.out) : last.out[i].ID # r.id

\* C8: the sequence list returns is in non-decreasing order of
\* start_time, and list returns no error, also when nothing matches.
C8_ListSorted ==
  last.op = "ListAppointments" =>
    /\ last.err = "nil"
    /\ \A i, j \in 1..Len(last.out) :
         i < j => last.out[i].StartTime <= last.out[j].StartTime

\* a list returned two appointments, the later created one first
C8_Witness ==
  /\ last.op = "ListAppointments"
  /\ Len(last.out) = 2
  /\ last.out[1].StartTime < last.out[2].StartTime
  /\ last.out[1].ID > last.out[2].ID

\* C9: a get of an id that has no row returns the nil appointment and the
\* nil error, and the GET handler answers it with 404.
C9_GetNotFound ==
  (/\ last.op = "handleGetAppointment"
   /\ last.status # StatusBadRequest
   /\ ~\E r \in appointments : r.id = last.id)
  => /\ last.err = "nil"
     /\ last.out = <<>>
     /\ last.status = StatusNotFound

\* a GET of an id that was created and deleted was answered with 404
C9_Witness ==
  /\ last.op = "handleGetAppointment"
  /\ last.status = StatusNotFound
  /\ last.id >= 1
  /\ last.id <= seq
  /\ appointments # {}

\* C10: a row keeps its id and its user_id: a step changes a row only by
\* an update with that id and that user id, which writes title,
\* description, start_time, end_time and updated_at only; an id is never
\* given to a second row.
C10_OwnerImmutable ==
  [][/\ \A r \in appointments : r.id <= seq
     /\ \A r \in appointments, r2 \in appointments' :
          r.id = r2.id =>
            /\ r2.user_id = r.user_id
            /\ r2.created_at = r.created_at
            /\ r2 # r =>
                 /\ last'.op = "UpdateAppointment"
                 /\ last'.id = r.id
                 /\ last'.userID = r.user_id
     /\ \A r2 \in appointments' :
          (~\E r \in appointments : r.id = r2.id) => r2.id > seq]_vars

\* an update by the owner, user 2, changed the title of a row
C10_Witness ==
  /\ last.op = "UpdateAppointment"
  /\ last.err = "nil"
  /\ last.userID = 2
  /\ \E r \in appointments :
       r.id = last.id /\ r.user_id = 2 /\ r.updated_at > r.created_at

\* C11: every persisted appointment's user_id is the id of a row of the
\* users table, and no create for a user id without such a row succeeds.
C11_ReferentialIntegrity ==
  /\ \A r \in appointments : r.user_id \in users
  /\ (last.op = "handleCreateAppointment" /\ last.status = StatusCreated)
     => last.out[1].UserID \in users

\* C12: a DELETE answered with 204 has no body and has removed the row:
\* from then on a get of the id finds nothing, no list returns it, a
\* second delete fails, and the id never comes back; a GET of an absent id
\* is answered with 404 and a DELETE of it with an error.
C12_DeleteImmediate ==
  [][/\ (/\ last = NoCall
         /\ last'.op = "handleDeleteAppointment"
         /\ last'.status = StatusNoContent) =>
          \E id \in Ids :
            /\ last'.id = id
            /\ last'.body = "none"
            /\ last'.out = <<>>
            /\ last'.msg = ""
            /\ \E r \in appointments : r.id = id
            /\ ~\E r \in appointments' : r.id = id
            /\ (GetAppointment(id))' = [out |-> <<>>, err |-> "nil"]
            /\ (DeleteAppointment(id, HandlerUserID))'.err
                 = ErrNotFoundOrUnauthorized
            /\ \A u \in UserIDs, st \in Times, en \in Times :
                 \A res \in (ListAppointments(u, st, en))' :
                   \A i \in 1..Len(res.out) : res.out[i].ID # id
     /\ \A r \in appointments : r.id <= seq
     /\ \A r2 \in appointments' :
          (~\E r \in appointments : r.id = r2.id) => r2.id > seq
     /\ (/\ last = NoCall
         /\ last'.op = "handleGetAppointment"
         /\ last'.status # StatusBadRequest
         /\ ~\E r \in appointments : r.id = last'.id)
        => last'.status = StatusNotFound
     /\ (/\ last = NoCall
         /\ last'.op = "handleDeleteAppointment"
         /\ last'.status # StatusBadRequest
         /\ ~\E r \in appointments : r.id = last'.id)
        => last'.status = StatusInternalServerError]_vars

\* a DELETE was answered with 204 while another appointment is persisted
C12_Witness ==
  /\ last.op = "handleDeleteAppointment"
  /\ last.status = StatusNoContent
  /\ last.body = "none"
  /\ appointments # {}

\* the create, get, update and delete handlers
GatewayHandlers ==
  {"handleCreateAppointment", "handleGetAppointment",
   "handleUpdateAppointment", "handleDeleteAppointment"}

\* the {id} segment is a decimal number
Numeric(path) ==
  /\ path # <<>>
  /\ \A i \in 1..Len(path) :
       path[i] \in {"0", "1", "2", "3", "4", "5", "6", "7", "8", "9"}

\* the response c answers a request that passed id parsing and body
\* decoding
Decoded(c) ==
  /\ c.op \in GatewayHandlers
  /\ c.op # "handleCreateAppointment" => Numeric(c.path)
  /\ c.valid

\* C13: in the create, get, update and delete handlers every error of the
\* Gateway is answered with 500: a check-constraint violation on POST or
\* PUT, an update that matched no row, a delete that affected no row, and
\* a failing store alike.
C13_GatewayError500 ==
  [][(last = NoCall /\ Decoded(last')) =>
       /\ last'.err # "nil" => last'.status = StatusInternalServerError
       /\ (/\ last'.op \in {"handleCreateAppointment",
                            "handleUpdateAppointment"}
           /\ last'.a.EndTime <= last'.a.StartTime)
          => last'.status = StatusInternalServerError
       /\ (/\ last'.op \in {"handleUpdateAppointment",
                            "handleDeleteAppointment"}
           /\ ~\E r \in appointments :
                 r.id = last'.id /\ r.user_id = HandlerUserID)
          => last'.status = StatusInternalServerError
       /\ faulty => last'.status = StatusInternalServerError]_vars

\* a DELETE of an id without a row was answered with 500
C13_Witness ==
  /\ last.op = "handleDeleteAppointment"
  /\ last.status = StatusInternalServerError
  /\ last.err = ErrNotFoundOrUnauthorized
  /\ Numeric(last.path)

\* C14: a body that is not JSON on POST or PUT and an id that is not a
\* number on GET, PUT or DELETE are answered with 400 and an
\* {"error": message} body, without a call of the Gateway; no row is
\* created, modified or deleted.
C14_ClientError400 ==
  [][(/\ last = NoCall
      /\ last'.op \in GatewayHandlers
      /\ \/ ~last'.valid
         \/ last'.op # "handleCreateAppointment" /\ ~Numeric(last'.path))
     => /\ last'.status = StatusBadRequest
        /\ last'.body = "error"
        /\ last'.msg # ""
        /\ last'.out = <<>>
        /\ last'.calls = 0
        /\ appointments' = appointments
        /\ seq' = seq]_vars

\* a PUT with a non-numeric id was answered with 400 while appointments
\* are persisted
C14_Witness ==
  /\ last.op = "handleUpdateAppointment"
  /\ last.status = StatusBadRequest
  /\ ~Numeric(last.path)
  /\ appointments # {}

\* C15: the list handler answers 200 with an empty collection in every
\* state of the store, also when appointments are persisted and when the
\* store fails; it makes no call of the Gateway and changes no row.
C15_ListStub ==
  [][(last = NoCall /\ last'.op = "handleListAppointments")
     => /\ last'.status = StatusOK
        /\ last'.body = "list"
        /\ last'.out = <<>>
        /\ last'.msg = ""
        /\ last'.calls = 0
        /\ appointments' = appointments
        /\ seq' = seq]_vars

\* the list handler answered with the empty collection while an
\* appointment of its user is persisted
C15_Witness ==
  /\ last.op = "handleListAppointments"
  /\ last.status = StatusOK
  /\ last.out = <<>>
  /\ \E r \in appointments : r.user_id = HandlerUserID

\* C16: the handlers act for user id 1: a row a handler request adds
\* has user_id 1 (the appointment a POST answers with 201 is stored with
\* user_id 1), a row a handler request changes or removes has user_id 1,
\* and a row of any other user is the same after every handler request.
C16_FixedUser ==
  [][(last = NoCall /\ last'.op \in GatewayHandlers)
     => /\ \A r \in appointments' \ appointments : r.user_id = 1
        /\ \A r \in appointments \ appointments' : r.user_id = 1
        /\ \A r \in appointments : r.user_id # 1 => r \in appointments'
        /\ (last'.op = "handleCreateAppointment"
            /\ last'.status = StatusCreated)
           => \E r \in appointments' \ appointments :
                /\ r.id = last'.out[1].ID
                /\ r.user_id = 1
                /\ last'.out[1].UserID = 1]_vars

\* a DELETE request for the id of a row of user 2 was answered and the
\* row is still stored
C16_Witness ==
  /\ last.op = "handleDeleteAppointment"
  /\ last.calls = 1
  /\ \E r \in appointments : r.id = last.id /\ r.user_id = 2

\* the worker holds the result of a statement that succeeded
Succeeded(w, op) ==
  /\ reqs.w[w].pc \in {"respond", "done"}
  /\ reqs.w[w].op = op
  /\ reqs.w[w].err = "nil"

\* the row holds the four fields of the request appointment a
StoresRequest(r, a) ==
  /\ r.title = a.Title
  /\ r.description = a.Description
  /\ r.start_time = a.StartTime
  /\ r.end_time = a.EndTime

\* C17: last writer wins.  The statement of an update request succeeds
\* exactly when a row of the handlers' user has its id, whatever the
\* other worker has in hand, and leaves in that row the title,
\* description, start_time and end_time of its own request; and while two
\* workers hold successful updates of one appointment, its row has all
\* four fields of one of the two requests, never some of each.
C17_LastWriterWins ==
  /\ [](\A w1 \in Workers, w2 \in Workers :
          (/\ w1 # w2
           /\ Succeeded(w1, "handleUpdateAppointment")
           /\ Succeeded(w2, "handleUpdateAppointment")
           /\ reqs.w[w1].id = reqs.w[w2].id)
          => \E r \in appointments :
               /\ r.id = reqs.w[w1].id
               /\ \/ StoresRequest(r, reqs.w[w1].a)
                  \/ StoresRequest(r, reqs.w[w2].a))
  /\ [][\A w \in Workers :
          (/\ reqs.w[w].pc = "call"
           /\ reqs'.w[w].pc = "respond"
           /\ reqs.w[w].op = "handleUpdateAppointment")
          => /\ (reqs'.w[w].err = "nil")
                  <=> (\E r \in appointments :
                         r.id = reqs.w[w].id /\ r.user_id = HandlerUserID)
             /\ reqs'.w[w].err = "nil"
                  => \E r \in appointments' :
                       /\ r.id = reqs.w[w].id
                       /\ StoresRequest(r, reqs.w[w].a)
                       /\ \A q \in appointments' : q.id = r.id => q = r]_vars

\* two update requests for one appointment that differ in title and in
\* times have both run their statement with success and neither has
\* written its response yet
C17_Witness ==
  /\ reqs.w[1].pc = "respond"
  /\ reqs.w[2].pc = "respond"
  /\ Succeeded(1, "handleUpdateAppointment")
  /\ Succeeded(2, "handleUpdateAppointment")
  /\ reqs.w[1].id = reqs.w[2].id
  /\ reqs.w[1].a.Title # reqs.w[2].a.Title
  /\ reqs.w[1].a.StartTime # reqs.w[2].a.StartTime

\* C18: concurrent creates do not interact.  The statement of a create
\* request the store accepts adds one row, with an id no row had and the
\* fields of its own request, keeps every other row, and returns that id
\* and those fields to its caller; while two workers hold successful
\* creates their ids differ, both rows are persisted and each response
\* carries the fields of its own request.
C18_CreatesIndependent ==
  /\ [](\A w1 \in Workers, w2 \in Workers :
          (/\ w1 # w2
           /\ Succeeded(w1, "handleCreateAppointment")
           /\ Succeeded(w2, "handleCreateAppointment"))
          => /\ reqs.w[w1].out[1].ID # reqs.w[w2].out[1].ID
             /\ \E r \in appointments : r.id = reqs.w[w1].out[1].ID
             /\ reqs.w[w1].out[1].Title = reqs.w[w1].a.Title
             /\ reqs.w[w1].out[1].Description = reqs.w[w1].a.Description
             /\ reqs.w[w1].out[1].StartTime = reqs.w[w1].a.StartTime
             /\ reqs.w[w1].out[1].EndTime = reqs.w[w1].a.EndTime
             /\ reqs.w[w1].pc = "done"
                  => reqs.w[w1].status = StatusCreated)
  /\ [][\A w \in Workers :
          (/\ reqs.w[w].pc = "call"
           /\ reqs'.w[w].pc = "respond"
           /\ reqs.w[w].op = "handleCreateAppointment")
          => /\ reqs'.w[w].err = "nil"
             /\ appointments \subseteq appointments'
             /\ Cardinality(appointments') = Cardinality(appointments) + 1
             /\ \A r \in appointments : r.id # reqs'.w[w].out[1].ID
             /\ \E r \in appointments' :
                  /\ r.id = reqs'.w[w].out[1].ID
                  /\ r.user_id = HandlerUserID
                  /\ StoresRequest(r, reqs.w[w].a)]_vars

\* two create requests with different fields have both run their
\* statement with success and neither has written its response yet
C18_Witness ==
  /\ reqs.w[1].pc = "respond"
  /\ reqs.w[2].pc = "respond"
  /\ Succeeded(1, "handleCreateAppointment")
  /\ Succeeded(2, "handleCreateAppointment")
  /\ reqs.w[1].a.Title # reqs.w[2].a.Title
  /\ reqs.w[1].a.StartTime # reqs.w[2].a.StartTime

\* C19: the result of delete(id, userID) is a function of the rows of
\* userID alone: nil when userID has a row with the id, and otherwise the
\* one error "appointment not found or unauthorized", whether no row has
\* the id or a row of another user has it.  The DELETE handler's response
\* is likewise fixed by the rows of its own user: 204 without a body or
\* 500 with "Failed to delete appointment".  Two stores that differ in
\* rows of other users therefore give the same result and response.
C19_DeleteNoLeak ==
  /\ [](\A id \in Ids, userID \in UserIDs :
          DeleteAppointment(id, userID).err =
            IF \E r \in appointments : r.id = id /\ r.user_id = userID
            THEN "nil" ELSE ErrNotFoundOrUnauthorized)
  /\ [][(/\ last = NoCall
         /\ last'.op = "handleDeleteAppointment"
         /\ Numeric(last'.path))
        => IF \E r \in appointments :
                r.id = last'.id /\ r.user_id = HandlerUserID
           THEN /\ last'.err = "nil"
                /\ last'.status = StatusNoContent
                /\ last'.body = "none"
                /\ last'.msg = ""
           ELSE /\ last'.err = ErrNotFoundOrUnauthorized
                /\ last'.status = StatusInternalServerError
                /\ last'.body = "error"
                /\ last'.msg = "Failed to delete appointment"
                /\ appointments' = appointments]_vars

\* a DELETE request for the id of a row of user 2 got the response of an
\* id that no row has, and user 1 has rows of its own
C19_Witness ==
  /\ last.op = "handleDeleteAppointment"
  /\ last.status = StatusInternalServerError
  /\ last.err = ErrNotFoundOrUnauthorized
  /\ \E r \in appointments : r.id = last.id /\ r.user_id = 2
  /\ \E r \in appointments : r.user_id = HandlerUserID

\* the message a handler writes after an error of the Gateway
FailureMessage(op) ==
  CASE op = "handleCreateAppointment" -> "Failed to create appointment"
    [] op = "handleGetAppointment" -> "Failed to get appointment"
    [] op = "handleUpdateAppointment" -> "Failed to update appointment"
    [] op = "handleDeleteAppointment" -> "Failed to delete appointment"
    [] OTHER -> "none"

\* C20: the body of a 500 response is {"error": message} with the message
\* that belongs to the handler, whatever error the Gateway returned: the
\* error's text is not in the response.
C20_GenericFailure ==
  last.status = StatusInternalServerError
    => /\ last.body = "error"
       /\ last.msg = FailureMessage(last.op)
       /\ last.msg # last.err
       /\ last.out = <<>>

\* the update handler answered 500 after a constraint failure of the
\* store, one of the three errors its call of the Gateway returns (no
\* matching row, CHECK constraint, failing store)
C20_Witness ==
  /\ last.op = "handleUpdateAppointment"
  /\ last.status = StatusInternalServerError
  /\ last.err = "failed to update appointment: CHECK constraint failed"
  /\ ~faulty

\* C21: a successful update leaves the store's current time in the
\* row's updated_at and in the UpdatedAt it returns, and keeps the row's
\* created_at; over every step, the created_at of a persisted appointment
\* stays what it was and its updated_at does not decrease.
C21_Timestamps ==
  [][/\ (/\ last = NoCall
         /\ last'.op = "UpdateAppointment"
         /\ last'.err = "nil")
        => \E r \in appointments, q \in appointments' :
             /\ r.id = last'.id
             /\ q.id = last'.id
             /\ q.updated_at = now
             /\ last'.out[1].UpdatedAt = now
             /\ q.created_at = r.created_at
     /\ \A r \in appointments, q \in appointments' :
          r.id = q.id => /\ q.created_at = r.created_at
                         /\ q.updated_at >= r.updated_at]_vars

\* an update succeeded at a time after the appointment's creation
C21_Witness ==
  /\ last.op = "UpdateAppointment"
  /\ last.err = "nil"
  /\ \E r \in appointments :
       /\ r.id = last.id
       /\ r.updated_at > r.created_at
       /\ last.out[1].UpdatedAt = r.updated_at

\* C22: nothing is retried.  A handler makes at most one call of the
\* Gateway: none for the list handler, and for the others exactly one
\* when the id parses and the body decodes and none otherwise; an error
\* of the Gateway is answered with 500 after that one call, and a request
\* served while the store fails gets the failure and changes no row.
C22_NoRetry ==
  /\ [](/\ last.calls \in {0, 1}
        /\ last.op = "handleListAppointments" => last.calls = 0
        /\ last.op \in GatewayHandlers
             => ((last.calls = 1)
                   <=> /\ last.valid
                       /\ \/ last.op = "handleCreateAppointment"
                          \/ Numeric(last.path))
        /\ (last.op \in GatewayHandlers /\ last.err # "nil")
             => /\ last.calls = 1
                /\ last.status = StatusInternalServerError)
  /\ [][(/\ last = NoCall
         /\ faulty
         /\ last'.op \in GatewayHandlers
         /\ last'.calls = 1)
        => /\ last'.status = StatusInternalServerError
           /\ last'.err # "nil"
           /\ appointments' = appointments
           /\ seq' = seq]_vars

\* a POST served while the store fails was answered 500 after one call
C22_Witness ==
  /\ faulty
  /\ last.op = "handleCreateAppointment"
  /\ last.status = StatusInternalServerError
  /\ last.calls = 1

\* C23: ids are positive and unique among the persisted rows, and no id
\* is above the sequence of the table, which never goes down; a create
\* that succeeds adds one row whose id is above the sequence as it was,
\* hence above every id assigned before, deleted or not, and returns it.
C23_IdsUniqueNeverReused ==
  /\ [](/\ \A r \in appointments : r.id >= 1 /\ r.id <= seq
        /\ \A r \in appointments, q \in appointments : r.id = q.id => r = q)
  /\ [][/\ seq' >= seq
        /\ (/\ last = NoCall
            /\ last'.op = "CreateAppointment"
            /\ last'.err = "nil")
           => \E r \in appointments' \ appointments :
                /\ appointments' = appointments \cup {r}
                /\ r.id > seq
                /\ r.id = seq'
                /\ r.id > 0
                /\ last'.out[1].ID = r.id]_vars

\* a create succeeded after the appointment created before it was
\* deleted, and got the next id
C23_Witness ==
  /\ last.op = "CreateAppointment"
  /\ last.err = "nil"
  /\ last.out[1].ID = 2
  /\ appointments # {}
  /\ \A r \in appointments : r.id = 2

\* C24: Validate reports the first failing check in a fixed order:
\* EmptyTitle whenever the title is empty, whatever the times;
\* InvalidTime when the title is not empty and the start or the end is
\* the zero time; EndBeforeStart only when the title is not empty and both
\* times are set; and the appointment is the same after the call.
C24_ValidateOrder ==
  /\ [](val.err \notin {"none", "pending"}
        => /\ val.a.Title = "" => val.err = ErrEmptyTitle
           /\ (/\ val.a.Title # ""
               /\ IsZero(val.a.StartTime) \/ IsZero(val.a.EndTime))
                => val.err = ErrInvalidTime
           /\ val.err = ErrEndTimeBeforeStart
                => /\ val.a.Title # ""
                   /\ ~IsZero(val.a.StartTime)
                   /\ ~IsZero(val.a.EndTime))
  /\ [][val'.a = val.a]_vars

\* Validate returned EmptyTitle for an appointment whose title is empty
\* and whose start is unset as well
C24_Witness ==
  /\ val.err = ErrEmptyTitle
  /\ val.a.Title = ""
  /\ IsZero(val.a.StartTime)
  /\ ~IsZero(val.a.EndTime)

\* C25: the appointment in the body of a successful PUT equals, field
\* for field, the appointment a GET of the same id returns right after
\* it.
C25_PutEqualsGet ==
  [][(/\ last = NoCall
      /\ last'.op = "handleUpdateAppointment"
      /\ last'.status = StatusOK)
     => \E id \in Ids :
          LET got == (GetAppointment(id))' IN
          /\ last'.id = id
          /\ got.err = "nil"
          /\ got.out = last'.out]_vars

\* the five operations of the Gateway
GatewayOps ==
  {"CreateAppointment", "GetAppointment", "ListAppointments",
   "UpdateAppointment", "DeleteAppointment"}

Executed(w, op) ==
  /\ reqs.w[w].pc \in {"respond", "done"}
  /\ reqs.w[w].op = op

ErrNoRows == "failed to update appointment: sql: no rows in result set"

\* C27: of two DELETE requests for one appointment, one succeeds and the
\* other fails.  The statement of a delete succeeds exactly when the
\* handlers' user has a row with the id, and then removes that one row;
\* otherwise it fails with not found or unauthorized and changes nothing.
\* So the request that runs first on an existing row gets 204 and the
\* other 500: two deletes of one id never both succeed, and the row is
\* gone once one has.
C27_ConcurrentDeletes ==
  /\ [](\A w1 \in Workers, w2 \in Workers :
          (/\ w1 # w2
           /\ Executed(w1, "handleDeleteAppointment")
           /\ Executed(w2, "handleDeleteAppointment")
           /\ reqs.w[w1].id = reqs.w[w2].id
           /\ reqs.w[w1].err = "nil")
          => /\ reqs.w[w2].err = ErrNotFoundOrUnauthorized
             /\ \A r \in appointments : r.id # reqs.w[w1].id
             /\ reqs.w[w1].pc = "done"
                  => reqs.w[w1].status = StatusNoContent
             /\ reqs.w[w2].pc = "done"
                  => reqs.w[w2].status = StatusInternalServerError)
  /\ [][\A w \in Workers :
          (/\ reqs.w[w].pc = "call"
           /\ reqs'.w[w].pc = "respond"
           /\ reqs.w[w].op = "handleDeleteAppointment")
          => LET own == {r \in appointments :
                           /\ r.id = reqs.w[w].id
                           /\ r.user_id = HandlerUserID} IN
             IF own # {}
             THEN /\ reqs'.w[w].err = "nil"
                  /\ Cardinality(own) = 1
                  /\ appointments' = appointments \ own
             ELSE /\ reqs'.w[w].err = ErrNotFoundOrUnauthorized
                  /\ appointments' = appointments]_vars

\* two DELETE requests for one appointment have both run their statement
\* before either wrote its response: the first succeeded, the second did
\* not
C27_Witness ==
  /\ reqs.w[1].pc = "respond"
  /\ reqs.w[2].pc = "respond"
  /\ reqs.w[1].op = "handleDeleteAppointment"
  /\ reqs.w[2].op = "handleDeleteAppointment"
  /\ reqs.w[1].id = reqs.w[2].id
  /\ reqs.w[1].err = "nil"
  /\ reqs.w[2].err = ErrNotFoundOrUnauthorized

\* C28: an update and a delete of one appointment.  While a worker holds
\* a successful delete of an id, no row has that id, and an update of the
\* id that has run either succeeded (it ran before the delete) or failed
\* for want of a row (it ran after); the statement of an update never
\* adds an id to the table, and without a row of its id it fails and
\* changes nothing.
C28_UpdateDelete ==
  /\ [](\A w1 \in Workers :
          (/\ Executed(w1, "handleDeleteAppointment")
           /\ reqs.w[w1].err = "nil")
          => /\ \A r \in appointments : r.id # reqs.w[w1].id
             /\ \A w2 \in Workers :
                  (/\ Executed(w2, "handleUpdateAppointment")
                   /\ reqs.w[w2].id = reqs.w[w1].id)
                  => /\ reqs.w[w2].err \in {"nil", ErrNoRows}
                     /\ reqs.w[w2].pc = "done"
                          => reqs.w[w2].status =
                               IF reqs.w[w2].err = "nil" THEN StatusOK
                               ELSE StatusInternalServerError)
  /\ [][\A w \in Workers :
          (/\ reqs.w[w].pc = "call"
           /\ reqs'.w[w].pc = "respond"
           /\ reqs.w[w].op = "handleUpdateAppointment")
          => /\ {r.id : r \in appointments'} = {r.id : r \in appointments}
             /\ (\A r \in appointments : r.id # reqs.w[w].id)
                  => /\ reqs'.w[w].err = ErrNoRows
                     /\ appointments' = appointments]_vars

\* a DELETE and a PUT of one appointment have both run their statement
\* before either wrote its response: the delete succeeded and the update,
\* which ran after it, found no row
C28_Witness ==
  /\ reqs.w[1].pc = "respond"
  /\ reqs.w[2].pc = "respond"
  /\ reqs.w[1].op = "handleDeleteAppointment"
  /\ reqs.w[1].err = "nil"
  /\ reqs.w[2].op = "handleUpdateAppointment"
  /\ reqs.w[2].id = reqs.w[1].id
  /\ reqs.w[2].err = ErrNoRows
  /\ seq >= reqs.w[1].id

\* the operations that read
ReadOps ==
  {"GetAppointment", "ListAppointments", "handleGetAppointment",
   "handleListAppointments", "handleIndex"}

\* C29: reads have no effect on the store.  get, list, the GET-by-id
\* handler, the list handler and the index handler leave every persisted
\* appointment, with its timestamps, and the id sequence as they were;
\* get(id) returns the row with that id whoever owns it, and so does the
\* GET-by-id handler.
C29_ReadsHaveNoEffect ==
  [][/\ (last = NoCall /\ last'.op \in ReadOps)
        => /\ appointments' = appointments
           /\ seq' = seq
     /\ (/\ last = NoCall
         /\ last'.op \in {"GetAppointment", "handleGetAppointment"}
         /\ last'.calls = IF last'.op = "GetAppointment" THEN 0 ELSE 1)
        => \A r \in appointments :
             r.id = last'.id
               => /\ last'.err = "nil"
                  /\ last'.out = <<ScanRow(r)>>
                  /\ last'.out[1].UserID = r.user_id]_vars

\* the GET-by-id handler answered 200 with an appointment of user 2
C29_Witness ==
  /\ last.op = "handleGetAppointment"
  /\ last.status = StatusOK
  /\ last.out # <<>>
  /\ last.out[1].UserID = 2
  /\ last.out[1].ID = last.id

\* the statuses the handler's table prescribes
AllowedStatus(op) ==
  CASE op = "handleListAppointments" -> {StatusOK}
    [] op = "handleCreateAppointment" ->
         {StatusCreated, StatusBadRequest, StatusInternalServerError}
    [] op = "handleGetAppointment" ->
         {StatusOK, StatusBadRequest, StatusNotFound,
          StatusInternalServerError}
    [] op = "handleUpdateAppointment" ->
         {StatusOK, StatusBadRequest, StatusInternalServerError}
    [] op = "handleDeleteAppointment" ->
         {StatusNoContent, StatusBadRequest, StatusInternalServerError}
    [] OTHER -> {}

\* C30: every request routed to an appointment handler ends with one
\* response.  A request in a worker's hands leads to a written response;
\* the status of a written response is one the handler's table allows
\* (POST 201, 400 or 500; GET by id 200, 400, 404 or 500; PUT 200, 400 or
\* 500; DELETE 204, 400 or 500; the list 200); and the status of a request
\* is written in one step, the one that ends the request, and stays as
\* written until the worker takes its next request.
C30_OneResponse ==
  /\ \A w \in Workers :
       (reqs.w[w].pc \in {"call", "respond"}) ~> (reqs.w[w].pc = "done")
  /\ [](\A w \in Workers :
          reqs.w[w].pc = "done"
            => reqs.w[w].status \in AllowedStatus(reqs.w[w].op))
  /\ [][\A w \in Workers :
          /\ (reqs.w[w].pc = "respond" /\ reqs'.w[w].pc # "respond")
               => /\ reqs'.w[w].pc = "done"
                  /\ reqs'.w[w].op = reqs.w[w].op
          /\ reqs'.w[w].status # reqs.w[w].status
               => \/ reqs.w[w].pc = "respond" /\ reqs'.w[w].pc = "done"
                  \/ /\ reqs.w[w].pc \in {"idle", "done"}
                     /\ reqs'.w[w].pc \in {"call", "respond"}]_vars

\* a GET that found no row was answered 404 and a DELETE served while
\* the store failed was answered 500
C30_Witness ==
  /\ reqs.w[1].pc = "done"
  /\ reqs.w[1].op = "handleGetAppointment"
  /\ reqs.w[1].status = StatusNotFound
  /\ reqs.w[2].pc = "done"
  /\ reqs.w[2].op = "handleDeleteAppointment"
  /\ reqs.w[2].status = StatusInternalServerError
  /\ reqs.w[2].err = "failed to delete appointment: disk I/O error"

====
